---------------------------- MODULE Spec2Model ----------------------------
(***************************************************************************)
(* Model of src/NCCL/01/test.cc: the NCCLComm wrapper (a communicator      *)
(* behind a mutex), the watchdog thread that polls ncclCommGetAsyncError   *)
(* and aborts the communicator, the foreground ncclAllReduce loop, the     *)
(* SIGTERM handler and the check macros that exit the process.             *)
(*                                                                         *)
(* The NCCL, CUDA and MPI libraries are not part of the repository: every  *)
(* value one of their calls returns is an input, drawn from a small set.   *)
(***************************************************************************)
EXTENDS Naturals, FiniteSets

VARIABLES
    comm,          \* main's local `comm`, the value given to the constructor
    nccl_comm_,    \* NCCLComm::nccl_comm_
    mutex,         \* NCCLComm::mutex_: "free", or the thread that holds it
    fg_pc,         \* position of the main thread in the loop of lines 171-175
    wd_pc,         \* position of the watchdog thread (checkNCCLError)
    fgComm,        \* the value GetNCCLComm returned to the main thread
    result,        \* CheckNCCLError's local `result`
    r_fg,          \* NCCLCHECK's local `r` in the main thread
    r_wd,          \* NCCLCHECK's local `r` in the watchdog thread
    exitStatus,    \* "running", or the status the process exited with
    exitSite,      \* the statement that called exit
    sigterm,       \* SIGTERM has been delivered and handled
    faultState,    \* what lines 69 and 74 report: Healthy, Aborting, Aborted
    abortCount,    \* calls of ncclCommAbort so far
    releaseCount,  \* times the library was told to free the communicator
    checkCount,    \* calls of CheckNCCLError so far
    faultSeen,     \* some async-error query has reported a non-success result
    firstFaultAt,  \* the CheckNCCLError call that first saw a non-success result
    firstAbortAt,  \* the CheckNCCLError call that first called ncclCommAbort
    fetchState,    \* faultState when GetNCCLComm last returned
    issuedState,   \* faultState when ncclAllReduce was last called
    destroyed,     \* ~NCCLComm has run
    bpc,           \* per rank: position in main's bootstrap, lines 145-165
    id,            \* per rank: main's local `id` (ncclUniqueId)
    bcastBuf,      \* what rank 0 has handed to MPI_Bcast, "none" before
    rootId,        \* the id ncclGetUniqueId produced at rank 0
    initId,        \* per rank: the id it passed to ncclCommInitRank
    generatedBy,   \* the ranks that have called ncclGetUniqueId
    hostHash,      \* per rank: getHostHash of its host name (line 136)
    hostHashs,     \* per rank: main's array `hostHashs`
    contributed,   \* the ranks that have entered MPI_Allgather
    localRank,     \* per rank: main's local `localRank`
    ranked,        \* the ranks that have finished the loop of lines 138-143
    deviceSel      \* pairs <<rank, device>>: what cudaSetDevice was given

vars == <<comm, nccl_comm_, mutex, fg_pc, wd_pc, fgComm, result, r_fg, r_wd,
          exitStatus, exitSite, sigterm, faultState, abortCount, releaseCount,
          checkCount, faultSeen, firstFaultAt, firstAbortAt, fetchState,
          issuedState, destroyed, bpc, id, bcastBuf, rootId, initId,
          generatedBy, hostHash, hostHashs, contributed, localRank, ranked,
          deviceSel>>

handleVars == <<comm, nccl_comm_, mutex, fg_pc, wd_pc, fgComm, result, r_fg,
                r_wd, exitStatus, exitSite, sigterm, faultState, abortCount,
                releaseCount, checkCount, faultSeen, firstFaultAt,
                firstAbortAt, fetchState, issuedState, destroyed>>

rankVars == <<hostHash, hostHashs, contributed, localRank, ranked>>

bootVars == <<bpc, id, bcastBuf, rootId, initId, generatedBy, rankVars,
              deviceSel>>

\* The counters of the two endless loops saturate at this value.
MaxCount == 3

\* Processes of the group: ranks 0 .. NRanks-1.
NRanks == 3

Ranks == 0 .. (NRanks - 1)

\* ncclUniqueId values (the blob is opaque: two representatives).
IdValues == {"idA", "idB"}

\* Host hashes (uint64_t): two representatives, so that ranks share a host.
HashValues == {"hashA", "hashB"}

\* Return codes of the MPI and CUDA calls: success and one failure.
MpiResults == {"MPI_SUCCESS", "MPI_ERR_OTHER"}
CudaResults == {"cudaSuccess", "cudaErrorUnknown"}

\* ncclComm_t values a communicator handle can have; NULL is none of them.
CommValues == {"commA", "commB"}

\* ncclResult_t: success and one representative failure code.
NcclResults == {"ncclSuccess", "ncclSystemError"}

Inc(n) == IF n < MaxCount THEN n + 1 ELSE MaxCount

Running == exitStatus = "running"

\* The threads run while the process does and the NCCLComm object exists.
Alive == Running /\ ~destroyed

\* exit(status) from statement `site`: every thread of the process stops.
Exit(status, site) ==
    /\ exitStatus' = status
    /\ exitSite' = site

NoExit == UNCHANGED <<exitStatus, exitSite>>

\* Variant: a guard that does not wait for the mutex.
M_LockGuard(t) == mutex' = t

\* std::lock_guard<std::mutex> lock(mutex_): blocks until the mutex is free.
LockGuard(t) ==
    /\ mutex = "free"
    /\ mutex' = t

\* Variant: the method returns with the mutex still locked.
M_Unlock == UNCHANGED mutex

\* The lock_guard goes out of scope when the method returns.
Unlock == mutex' = "free"

\* Variant: a check macro that lets a failure pass.
M_CheckFails(r) == FALSE

\* NCCLCHECK: r != ncclSuccess prints and calls exit(EXIT_FAILURE).
CheckFails(r) == r # "ncclSuccess"

\* Variant: the detected async error itself ends the process.
M_QueryExits(r, res) == CheckFails(r) \/ res # "ncclSuccess"

\* Line 66: whether the query ends the process, given the code r it returns
\* and the async error res it stores in `result`.
QueryExits(r, res) == CheckFails(r)

\* Variant: abort whatever the query reported.
M_AbortNeeded(res) == TRUE

\* Line 67: the condition under which CheckNCCLError aborts.
AbortNeeded(res) == res # "ncclSuccess"

\* Variant: the abort clears the member.
M_CommAfterAbort == "NULL"

\* What the abort leaves in nccl_comm_ (line 71 passes it by value).
CommAfterAbort == nccl_comm_

\* Variant: the handler exits with a failure status.
M_HandlerExitStatus == "EXIT_FAILURE"

\* Line 116: exit(0).
HandlerExitStatus == "EXIT_SUCCESS"

\* Variant: the loop issues a reduction only on a healthy handle.
M_IssueAllowed == faultState = "Healthy"

\* Line 172: nothing is tested between GetNCCLComm's return and the call of
\* ncclAllReduce.
IssueAllowed == TRUE

\* Variant: the watchdog loop ends once the communicator is aborted.
M_WatchdogContinues == faultState # "Aborted"

\* Line 106: while (true).
WatchdogContinues == TRUE

\* Variant: the loop ends once the communicator is aborted.
M_LoopCondition == faultState # "Aborted"

\* Line 171: while (true).
LoopCondition == TRUE

(***************************************************************************)
(* State after `NCCLComm nccl_comm(comm)` and the start of the watchdog    *)
(* thread (lines 167-168); the handler was installed at line 125.          *)
(***************************************************************************)
HandleInit ==
    /\ comm \in CommValues
    /\ nccl_comm_ = comm
    /\ mutex = "free"
    /\ fg_pc = "get_lock"
    /\ wd_pc = "chk_lock"
    /\ fgComm = "none"
    /\ result = "unset"
    /\ r_fg = "unset"
    /\ r_wd = "unset"
    /\ exitStatus = "running"
    /\ exitSite = "none"
    /\ sigterm = FALSE
    /\ faultState = "Healthy"
    /\ abortCount = 0
    /\ releaseCount = 0
    /\ checkCount = 0
    /\ faultSeen = FALSE
    /\ firstFaultAt = 0
    /\ firstAbortAt = 0
    /\ fetchState = "none"
    /\ issuedState = "none"
    /\ destroyed = FALSE

\* The group's bootstrap is over: every rank holds rank 0's id and has
\* created its communicator with it.
BootDone ==
    /\ \E v \in IdValues :
        /\ id = [r \in Ranks |-> v]
        /\ initId = [r \in Ranks |-> v]
        /\ bcastBuf = v
        /\ rootId = v
    /\ bpc = [r \in Ranks |-> "done"]
    /\ generatedBy = {0}
    /\ hostHash = [r \in Ranks |-> "hashA"]
    /\ hostHashs = [r \in Ranks |-> hostHash]
    /\ contributed = Ranks
    /\ localRank = [r \in Ranks |-> r]
    /\ ranked = Ranks
    /\ deviceSel = {<<r, r>> : r \in Ranks}

Init == HandleInit /\ BootDone

fgVars == <<fg_pc, fgComm, r_fg, fetchState, issuedState>>
wdVars == <<wd_pc, result, r_wd, faultState, abortCount, releaseCount,
            checkCount, faultSeen, firstFaultAt, firstAbortAt>>

(***************************************************************************)
(* Main thread, lines 171-175.                                             *)
(***************************************************************************)
\* GetNCCLComm, line 57: take the lock.
GetNCCLComm_Lock ==
    /\ Alive
    /\ fg_pc = "get_lock"
    /\ LockGuard("fg")
    /\ fg_pc' = "get_cs"
    /\ UNCHANGED <<bootVars, comm, nccl_comm_, fgComm, r_fg, fetchState, issuedState,
                   wdVars, sigterm, destroyed>>
    /\ NoExit

\* GetNCCLComm, lines 58-59: read nccl_comm_, release the lock, return.
GetNCCLComm_Return ==
    /\ Alive
    /\ fg_pc = "get_cs"
    /\ fgComm' = nccl_comm_
    /\ fetchState' = faultState
    /\ Unlock
    /\ fg_pc' = "reduce_call"
    /\ UNCHANGED <<bootVars, comm, nccl_comm_, r_fg, issuedState, wdVars, sigterm,
                   destroyed>>
    /\ NoExit

\* Line 172: ncclAllReduce is called with the value GetNCCLComm returned.
AllReduce_Call ==
    /\ Alive
    /\ fg_pc = "reduce_call"
    /\ IssueAllowed
    /\ issuedState' = faultState
    /\ fg_pc' = "reduce_wait"
    /\ UNCHANGED <<bootVars, comm, nccl_comm_, mutex, fgComm, r_fg, fetchState, wdVars,
                   sigterm, destroyed>>
    /\ NoExit

\* Lines 172-173 under NCCLCHECK: ncclAllReduce returns r.
AllReduce_Return ==
    /\ Alive
    /\ fg_pc = "reduce_wait"
    /\ \E r \in NcclResults :
        /\ r_fg' = r
        /\ IF CheckFails(r)
           THEN /\ Exit("EXIT_FAILURE", "ncclAllReduce")
                /\ fg_pc' = fg_pc
           ELSE /\ NoExit
                /\ fg_pc' = "fg_sleep"
    /\ UNCHANGED <<bootVars, comm, nccl_comm_, mutex, fgComm, fetchState, issuedState,
                   wdVars, sigterm, destroyed>>

\* Lines 174-175 and 171: sleep 50 ms, then test the loop condition: the next
\* iteration calls GetNCCLComm; "after_loop" is line 177, the code behind
\* the loop (cudaFree, join, return and with it ~NCCLComm).
FgSleep ==
    /\ Alive
    /\ fg_pc = "fg_sleep"
    /\ fg_pc' = IF LoopCondition THEN "get_lock" ELSE "after_loop"
    /\ UNCHANGED <<bootVars, comm, nccl_comm_, mutex, fgComm, r_fg, fetchState,
                   issuedState, wdVars, sigterm, destroyed>>
    /\ NoExit

(***************************************************************************)
(* Watchdog thread: checkNCCLError (lines 104-110) calling                 *)
(* NCCLComm::CheckNCCLError (lines 61-76).                                 *)
(***************************************************************************)
\* Line 64: take the lock.
CheckNCCLError_Lock ==
    /\ Alive
    /\ wd_pc = "chk_lock"
    /\ LockGuard("wd")
    /\ wd_pc' = "chk_query"
    /\ checkCount' = Inc(checkCount)
    /\ UNCHANGED <<bootVars, comm, nccl_comm_, fgVars, result, r_wd, faultState,
                   abortCount, releaseCount, faultSeen, firstFaultAt,
                   firstAbortAt, sigterm, destroyed>>
    /\ NoExit

\* Lines 66-71: the query returns r and stores res in `result`; a non-success
\* result starts ncclCommAbort.
CheckNCCLError_Query ==
    /\ Alive
    /\ wd_pc = "chk_query"
    /\ \E r \in NcclResults, res \in NcclResults :
        /\ r_wd' = r
        /\ IF QueryExits(r, res)
           THEN /\ Exit("EXIT_FAILURE", "ncclCommGetAsyncError")
                /\ UNCHANGED <<wd_pc, result, faultState, abortCount,
                               faultSeen, firstFaultAt, firstAbortAt>>
           ELSE /\ NoExit
                /\ result' = res
                /\ faultSeen' = (faultSeen \/ res # "ncclSuccess")
                /\ firstFaultAt' = IF ~faultSeen /\ res # "ncclSuccess"
                                   THEN checkCount ELSE firstFaultAt
                /\ IF AbortNeeded(res)
                   THEN /\ wd_pc' = "chk_abort"
                        /\ faultState' = "Aborting"
                        /\ abortCount' = Inc(abortCount)
                        /\ firstAbortAt' = IF abortCount = 0
                                           THEN checkCount ELSE firstAbortAt
                   ELSE /\ wd_pc' = "chk_ret"
                        /\ UNCHANGED <<faultState, abortCount, firstAbortAt>>
    /\ UNCHANGED <<bootVars, comm, nccl_comm_, mutex, fgVars, releaseCount, checkCount,
                   sigterm, destroyed>>

\* Lines 71-74 under NCCLCHECK: ncclCommAbort returns r.
CheckNCCLError_AbortReturn ==
    /\ Alive
    /\ wd_pc = "chk_abort"
    /\ \E r \in NcclResults :
        /\ r_wd' = r
        /\ IF CheckFails(r)
           THEN /\ Exit("EXIT_FAILURE", "ncclCommAbort")
                /\ UNCHANGED <<wd_pc, faultState, releaseCount, nccl_comm_>>
           ELSE /\ NoExit
                /\ faultState' = "Aborted"
                /\ releaseCount' = Inc(releaseCount)
                /\ nccl_comm_' = CommAfterAbort
                /\ wd_pc' = "chk_ret"
    /\ UNCHANGED <<bootVars, comm, mutex, fgVars, result, abortCount, checkCount,
                   faultSeen, firstFaultAt, firstAbortAt, sigterm, destroyed>>

\* Line 76: the method returns and the lock is released.
CheckNCCLError_Return ==
    /\ Alive
    /\ wd_pc = "chk_ret"
    /\ Unlock
    /\ wd_pc' = "wd_sleep"
    /\ UNCHANGED <<bootVars, comm, nccl_comm_, fgVars, result, r_wd, faultState,
                   abortCount, releaseCount, checkCount, faultSeen,
                   firstFaultAt, firstAbortAt, sigterm, destroyed>>
    /\ NoExit

\* Line 108: sleep 10 ms, then the loop calls CheckNCCLError again.
WdSleep ==
    /\ Alive
    /\ wd_pc = "wd_sleep"
    /\ WatchdogContinues
    /\ wd_pc' = "chk_lock"
    /\ UNCHANGED <<bootVars, comm, nccl_comm_, mutex, fgVars, result, r_wd, faultState,
                   abortCount, releaseCount, checkCount, faultSeen,
                   firstFaultAt, firstAbortAt, sigterm, destroyed>>
    /\ NoExit

(***************************************************************************)
(* SIGTERM: handler (lines 112-117), installed at line 125.                *)
(***************************************************************************)
handler ==
    /\ Running
    /\ sigterm' = TRUE
    /\ Exit(HandlerExitStatus, "handler")
    /\ UNCHANGED <<bootVars, comm, nccl_comm_, mutex, fgVars, wdVars, destroyed>>

Next ==
    \/ GetNCCLComm_Lock
    \/ GetNCCLComm_Return
    \/ AllReduce_Call
    \/ AllReduce_Return
    \/ FgSleep
    \/ CheckNCCLError_Lock
    \/ CheckNCCLError_Query
    \/ CheckNCCLError_AbortReturn
    \/ CheckNCCLError_Return
    \/ WdSleep
    \/ handler

Spec == Init /\ [][Next]_vars

(***************************************************************************)
(* The same program under the scheduling the threads get: each thread that *)
(* can take a step eventually takes it (sleeps end, library calls return), *)
(* and a thread that waits for the mutex eventually gets it when the mutex *)
(* is released again and again.  SIGTERM may never come.                   *)
(***************************************************************************)
Fairness ==
    /\ SF_vars(GetNCCLComm_Lock)
    /\ WF_vars(GetNCCLComm_Return)
    /\ WF_vars(AllReduce_Call)
    /\ WF_vars(AllReduce_Return)
    /\ WF_vars(FgSleep)
    /\ SF_vars(CheckNCCLError_Lock)
    /\ WF_vars(CheckNCCLError_Query)
    /\ WF_vars(CheckNCCLError_AbortReturn)
    /\ WF_vars(CheckNCCLError_Return)
    /\ WF_vars(WdSleep)

SpecFair == Spec /\ Fairness

(***************************************************************************)
(* Lifetime of an NCCLComm object: its owner calls the two methods as the  *)
(* threads above do and, at a moment when no thread is inside a method,    *)
(* lets the object go out of scope, which runs ~NCCLComm (lines 49-53).    *)
(* In main the end of the scope is never reached; this specification is    *)
(* of the class alone.                                                     *)
(***************************************************************************)
\* ~NCCLComm: ncclCommDestroy(nccl_comm_), whatever happened before.
Destroy ==
    /\ Running
    /\ ~destroyed
    /\ mutex = "free"
    /\ destroyed' = TRUE
    /\ releaseCount' = Inc(releaseCount)
    /\ UNCHANGED <<bootVars, comm, nccl_comm_, mutex, fgVars, wd_pc, result, r_wd,
                   faultState, abortCount, checkCount, faultSeen,
                   firstFaultAt, firstAbortAt, sigterm>>
    /\ NoExit

\* No method is called on a destroyed object (see Alive).
NextLifetime ==
    \/ Next
    \/ Destroy

SpecLifetime == Init /\ [][NextLifetime]_vars

(***************************************************************************)
(* Bootstrap of the group, main lines 132-165, one process per rank, from  *)
(* the call of MPI_Allgather on: `localRank` is 0 (line 123) and each rank *)
(* has stored its own hash (line 136).  `id` is an uninitialized local     *)
(* until it is written: any value.                                         *)
(***************************************************************************)
BootInit ==
    /\ bpc = [r \in Ranks |-> "allgather"]
    /\ hostHash \in [Ranks -> HashValues]
    /\ hostHashs = [r \in Ranks |->
                       [p \in Ranks |-> IF p = r THEN hostHash[r] ELSE "unset"]]
    /\ contributed = {}
    /\ localRank = [r \in Ranks |-> 0]
    /\ ranked = {}
    /\ deviceSel = {}
    /\ id \in [Ranks -> IdValues]
    /\ bcastBuf = "none"
    /\ rootId = "none"
    /\ initId = [r \in Ranks |-> "none"]
    /\ generatedBy = {}

InitBootstrap == BootInit /\ HandleInit

\* Line 151: if (myRank == 0).
IsRoot(r) == r = 0

\* Variant: the broadcast leaves a non-root's buffer as it was.
M_BcastDelivered(r) == id[r]

\* Line 153: what MPI_Bcast with root 0 leaves in a non-root's buffer.
BcastDelivered(r) == bcastBuf

\* A check macro failed at rank r: exit(EXIT_FAILURE).
RankExit(r) == bpc' = [bpc EXCEPT ![r] = "exited"]

\* Variant: the loop skips the rank itself and goes on (no break).
M_LocalRankLoop(h, myRank, p, lr) ==
    Cardinality({q \in Ranks : q >= p /\ q # myRank /\ h[q] = h[myRank]}) + lr

\* Lines 138-143: the loop from index p on, with localRank = lr so far.
RECURSIVE LocalRankLoop(_, _, _, _)
LocalRankLoop(h, myRank, p, lr) ==
    IF p >= NRanks THEN lr
    ELSE IF p = myRank THEN lr
    ELSE LocalRankLoop(h, myRank, p + 1,
                       IF h[p] = h[myRank] THEN lr + 1 ELSE lr)

\* Line 137 under MPICHECK: the rank enters MPI_Allgather with its own hash.
AllgatherEnter(r) ==
    /\ bpc[r] = "allgather"
    /\ \E e \in MpiResults :
        IF e # "MPI_SUCCESS"
        THEN /\ RankExit(r)
             /\ UNCHANGED contributed
        ELSE /\ bpc' = [bpc EXCEPT ![r] = "allgather_wait"]
             /\ contributed' = contributed \cup {r}
    /\ UNCHANGED <<handleVars, id, bcastBuf, rootId, initId, generatedBy,
                   hostHash, hostHashs, localRank, ranked, deviceSel>>

\* Line 137: MPI_Allgather returns once every rank has contributed; the array
\* then holds every rank's hash.
AllgatherReturn(r) ==
    /\ bpc[r] = "allgather_wait"
    /\ contributed = Ranks
    /\ hostHashs' = [hostHashs EXCEPT ![r] = hostHash]
    /\ bpc' = [bpc EXCEPT ![r] = "local_rank"]
    /\ UNCHANGED <<handleVars, id, bcastBuf, rootId, initId, generatedBy,
                   hostHash, contributed, localRank, ranked, deviceSel>>

\* Lines 138-143: the loop that counts the earlier ranks of the same host.
ComputeLocalRank(r) ==
    /\ bpc[r] = "local_rank"
    /\ localRank' = [localRank EXCEPT
                        ![r] = LocalRankLoop(hostHashs[r], r, 0, localRank[r])]
    /\ ranked' = ranked \cup {r}
    /\ bpc' = [bpc EXCEPT ![r] = "get_id"]
    /\ UNCHANGED <<handleVars, id, bcastBuf, rootId, initId, generatedBy,
                   hostHash, hostHashs, contributed, deviceSel>>

\* Lines 151-152: rank 0 calls ncclGetUniqueId(&id); its result is unchecked.
GetUniqueId(r) ==
    /\ bpc[r] = "get_id"
    /\ IF IsRoot(r)
       THEN \E v \in IdValues :
               /\ id' = [id EXCEPT ![r] = v]
               /\ rootId' = IF r = 0 THEN v ELSE rootId
               /\ generatedBy' = generatedBy \cup {r}
       ELSE UNCHANGED <<id, rootId, generatedBy>>
    /\ bpc' = [bpc EXCEPT ![r] = "bcast"]
    /\ UNCHANGED <<handleVars, bcastBuf, initId, rankVars, deviceSel>>

\* Line 153 under MPICHECK: MPI_Bcast(&id, sizeof(id), MPI_BYTE, 0, ...).
\* Rank 0 sends its buffer; another rank returns once it has received it.
Bcast(r) ==
    /\ bpc[r] = "bcast"
    /\ \E e \in MpiResults :
        IF e # "MPI_SUCCESS"
        THEN /\ RankExit(r)
             /\ UNCHANGED <<id, bcastBuf>>
        ELSE /\ bpc' = [bpc EXCEPT ![r] = "finalize"]
             /\ IF r = 0
                THEN /\ bcastBuf' = id[0]
                     /\ UNCHANGED id
                ELSE /\ bcastBuf # "none"
                     /\ id' = [id EXCEPT ![r] = BcastDelivered(r)]
                     /\ UNCHANGED bcastBuf
    /\ UNCHANGED <<handleVars, rootId, initId, generatedBy, rankVars,
                   deviceSel>>

\* Line 156 under MPICHECK: MPI_Finalize().
Finalize(r) ==
    /\ bpc[r] = "finalize"
    /\ \E e \in MpiResults :
        IF e # "MPI_SUCCESS"
        THEN RankExit(r)
        ELSE bpc' = [bpc EXCEPT ![r] = "device"]
    /\ UNCHANGED <<handleVars, id, bcastBuf, rootId, initId, generatedBy,
                   rankVars, deviceSel>>

\* Lines 159-162 under CUDACHECK: cudaSetDevice(localRank), cudaMalloc
\* twice, cudaStreamCreate; the first failure exits.
DeviceSetup(r) ==
    /\ bpc[r] = "device"
    /\ \E e \in CudaResults :
        IF e # "cudaSuccess"
        THEN /\ RankExit(r)
             /\ UNCHANGED deviceSel
        ELSE /\ bpc' = [bpc EXCEPT ![r] = "init_rank"]
             /\ deviceSel' = deviceSel \cup {<<r, localRank[r]>>}
    /\ UNCHANGED <<handleVars, id, bcastBuf, rootId, initId, generatedBy,
                   rankVars>>

\* Line 165 under NCCLCHECK: ncclCommInitRank(&comm, nRanks, id, myRank).
CommInitRank(r) ==
    /\ bpc[r] = "init_rank"
    /\ initId' = [initId EXCEPT ![r] = id[r]]
    /\ \E res \in NcclResults :
        IF CheckFails(res)
        THEN RankExit(r)
        ELSE bpc' = [bpc EXCEPT ![r] = "done"]
    /\ UNCHANGED <<handleVars, id, bcastBuf, rootId, generatedBy, rankVars,
                   deviceSel>>

NextBootstrap ==
    \E r \in Ranks :
        \/ AllgatherEnter(r)
        \/ AllgatherReturn(r)
        \/ ComputeLocalRank(r)
        \/ GetUniqueId(r)
        \/ Bcast(r)
        \/ Finalize(r)
        \/ DeviceSetup(r)
        \/ CommInitRank(r)

SpecBootstrap == InitBootstrap /\ [][NextBootstrap]_vars

(***************************************************************************)
(* Properties of the running program (specification Spec).                 *)
(***************************************************************************)
InFgCS == fg_pc = "get_cs"
InWdCS == wd_pc \in {"chk_query", "chk_abort", "chk_ret"}

\* C1: over any sequence of CheckNCCLError calls on one NCCLComm,
\* ncclCommAbort is invoked at most once, also when the transport keeps
\* reporting a non-success async error.
C1_AbortAtMostOnce == abortCount <= 1

\* C2: once the handle is Aborted, the foreground loop never calls
\* ncclAllReduce with that communicator.
C2_NoReduceAfterAbort == issuedState # "Aborted"

\* C3: at most one thread is inside a critical section of the NCCLComm, the
\* thread inside holds the mutex, and GetNCCLComm never returns while an
\* abort is in progress.
C3_MutualExclusion ==
    /\ ~(InFgCS /\ InWdCS)
    /\ (InFgCS => mutex = "fg")
    /\ (InWdCS => mutex = "wd")
    /\ fetchState # "Aborting"

\* C3 witness: the main thread waits for the lock while the watchdog is
\* inside ncclCommAbort, after an earlier GetNCCLComm has returned.
C3_Witness ==
    /\ fg_pc = "get_lock"
    /\ wd_pc = "chk_abort"
    /\ fetchState = "Healthy"
    /\ Running

\* C5: as long as every async-error query has reported success,
\* ncclCommAbort has not been invoked and the handle is Healthy.
C5_NoFaultNoAbort ==
    ~faultSeen => (abortCount = 0 /\ faultState = "Healthy")

\* C5 witness: several checks, all reporting success, with reductions issued
\* in between.
C5_Witness ==
    /\ ~faultSeen
    /\ checkCount = MaxCount
    /\ wd_pc = "wd_sleep"
    /\ issuedState = "Healthy"
    /\ abortCount = 0

\* C6: the abort is performed inside the CheckNCCLError call that first sees
\* a non-success async error, and a reduction issued after the abort has
\* completed fails, so the main thread never goes on to its sleep after it.
C6_AbortThenReduceFails ==
    /\ firstAbortAt = firstFaultAt
    /\ ~(issuedState = "Aborted" /\ fg_pc = "fg_sleep")

\* C7 as stated: a failure exit after an async fault is only ever taken by
\* the foreground reduction, never from inside CheckNCCLError.
C7_ExitOnlyFromReduce ==
    exitStatus = "EXIT_FAILURE" => exitSite = "ncclAllReduce"

\* C7 as amended: a detected async error never ends the process by itself;
\* a failure exit is taken only by an NCCLCHECK whose wrapped call returned a
\* non-success code: the foreground ncclAllReduce or, inside CheckNCCLError,
\* the ncclCommGetAsyncError call or the ncclCommAbort call.
C7_ExitOnlyOnCallFailure ==
    /\ (exitStatus = "EXIT_FAILURE" =>
           \/ (exitSite = "ncclAllReduce" /\ r_fg # "ncclSuccess")
           \/ (exitSite \in {"ncclCommGetAsyncError", "ncclCommAbort"}
                  /\ r_wd # "ncclSuccess"))
    /\ (exitStatus = "running" => exitSite = "none")

\* C7 witness: an async error was detected, the abort completed, the
\* watchdog returned from CheckNCCLError and the process is still running.
C7_Witness ==
    /\ faultSeen
    /\ faultState = "Aborted"
    /\ wd_pc = "wd_sleep"
    /\ Running

\* C8: once SIGTERM has been delivered to the running process, its exit
\* status is 0, whatever the two threads were doing.
C8_SigtermExitsZero ==
    sigterm => (exitStatus = "EXIT_SUCCESS" /\ exitSite = "handler")

\* C8 witness: SIGTERM delivered while the watchdog holds the lock inside
\* ncclCommAbort and the main thread waits for the lock.
C8_Witness ==
    /\ sigterm
    /\ wd_pc = "chk_abort"
    /\ mutex = "wd"
    /\ fg_pc = "get_lock"

\* C10: nccl_comm_ always is the value given to the constructor, what
\* GetNCCLComm returns is that value, and GetNCCLComm can take the lock
\* whenever it is free, whatever the fault state.
C10_CommUnchanged ==
    /\ nccl_comm_ = comm
    /\ fgComm \in {"none", comm}
    /\ (Running /\ fg_pc = "get_lock" /\ mutex = "free"
           => ENABLED GetNCCLComm_Lock)

\* C10 witness: GetNCCLComm has returned the constructor's value after the
\* abort completed.
C10_Witness ==
    /\ fetchState = "Aborted"
    /\ fg_pc = "reduce_call"
    /\ fgComm = comm
    /\ Running

\* C11: fail-fast: once a call under NCCLCHECK has returned a non-success
\* code, the process has exited with status 1 and the calling thread stands
\* where the call returned: a failed reduction is not retried and no later
\* reduction is issued.
C11_FailFast ==
    /\ (r_fg \notin {"unset", "ncclSuccess"} =>
           /\ exitStatus = "EXIT_FAILURE"
           /\ fg_pc = "reduce_wait")
    /\ (r_wd \notin {"unset", "ncclSuccess"} =>
           /\ exitStatus = "EXIT_FAILURE"
           /\ wd_pc \in {"chk_query", "chk_abort"})

\* C11 witness: a reduction issued on a healthy communicator failed after an
\* earlier one had succeeded, and the process has exited with status 1.
C11_Witness ==
    /\ r_fg = "ncclSystemError"
    /\ exitStatus = "EXIT_FAILURE"
    /\ exitSite = "ncclAllReduce"
    /\ fg_pc = "reduce_wait"
    /\ issuedState = "Healthy"
    /\ checkCount >= 1

\* C12: mutual exclusion is the only ordering between the two threads: a
\* thread that is alive and does not wait for the mutex can always take its
\* next step, whatever the fault state; in particular the main thread can
\* issue ncclAllReduce with a reference it obtained before an abort.
C12_OnlyMutexOrders ==
    Alive =>
        /\ (fg_pc = "reduce_call" => ENABLED AllReduce_Call)
        /\ (fg_pc = "get_lock" /\ mutex = "free" => ENABLED GetNCCLComm_Lock)
        /\ (wd_pc = "chk_lock" /\ mutex = "free"
               => ENABLED CheckNCCLError_Lock)
        /\ (wd_pc = "chk_query" => ENABLED CheckNCCLError_Query)

\* C12 witness, the race itself: GetNCCLComm returned while the handle was
\* Healthy, the watchdog then aborted the communicator, and the main thread
\* has issued ncclAllReduce with the reference obtained before the abort.
C12_Witness ==
    /\ fetchState = "Healthy"
    /\ issuedState = "Aborted"
    /\ fg_pc = "reduce_wait"
    /\ fgComm = comm
    /\ Running

\* C13: the watchdog loop never stops on its own: as long as the process
\* runs, the watchdog again and again is inside CheckNCCLError about to query
\* the async error, also after the communicator has been aborted.
C13_WatchdogKeepsChecking == []<>(~Running \/ wd_pc = "chk_query")

\* C13 witness: a check that queries the async error of the communicator
\* after its abort has completed.
C13_Witness ==
    /\ Running
    /\ wd_pc = "chk_query"
    /\ faultState = "Aborted"
    /\ abortCount >= 1
    /\ nccl_comm_ = comm

\* C14: the main thread never reaches the code after the loop, the wrapper
\* is never destroyed, and the process ends only through exit(0) in the
\* signal handler or exit(1) in a check macro.
C14_AfterLoopUnreachable ==
    /\ fg_pc # "after_loop"
    /\ ~destroyed
    /\ exitStatus \in {"running", "EXIT_SUCCESS", "EXIT_FAILURE"}
    /\ (exitStatus = "EXIT_SUCCESS" => exitSite = "handler")
    /\ (exitStatus = "EXIT_FAILURE" =>
           exitSite \in {"ncclAllReduce", "ncclCommGetAsyncError",
                         "ncclCommAbort"})

\* C14 witness: the process has ended in the handler after several loop
\* iterations and an abort, the wrapper still not destroyed.
C14_Witness ==
    /\ exitStatus = "EXIT_SUCCESS"
    /\ exitSite = "handler"
    /\ fg_pc = "fg_sleep"
    /\ faultState = "Aborted"
    /\ checkCount = MaxCount
    /\ ~destroyed

\* C15: the mutex is never held while a reduction executes: the main thread
\* holds it only between lines 57 and 59, the watchdog only inside
\* CheckNCCLError (the query and the abort), and a health check can start
\* while a reduction is in flight.
C15_NoLockDuringReduce ==
    /\ (fg_pc \in {"reduce_call", "reduce_wait", "fg_sleep"} => mutex # "fg")
    /\ (mutex = "fg" => fg_pc = "get_cs")
    /\ (mutex = "wd" => wd_pc \in {"chk_query", "chk_abort", "chk_ret"})
    /\ (Alive /\ fg_pc = "reduce_wait" /\ wd_pc = "chk_lock"
           => ENABLED CheckNCCLError_Lock)

\* C15 witness: the watchdog is inside ncclCommAbort, holding the lock,
\* while a reduction issued on the healthy communicator is in flight.
C15_Witness ==
    /\ fg_pc = "reduce_wait"
    /\ issuedState = "Healthy"
    /\ wd_pc = "chk_abort"
    /\ mutex = "wd"
    /\ Running

\* C16: no permanent blocking on the mutex: under fair scheduling and fair
\* lock acquisition, with every ncclCommAbort returning, every GetNCCLComm
\* call of the main thread returns and every CheckNCCLError call of the
\* watchdog completes, unless the process exits first.
C16_CallsComplete ==
    /\ (fg_pc = "get_lock") ~> (fg_pc = "reduce_call" \/ ~Running)
    /\ (wd_pc = "chk_lock") ~> (wd_pc = "wd_sleep" \/ ~Running)

\* C16 witness: the watchdog waits for the mutex the main thread holds in
\* GetNCCLComm, after an abort has kept the main thread waiting before.
C16_Witness ==
    /\ wd_pc = "chk_lock"
    /\ mutex = "fg"
    /\ fg_pc = "get_cs"
    /\ faultState = "Aborted"
    /\ Running

(***************************************************************************)
(* Properties of the object's lifetime (specification SpecLifetime).       *)
(***************************************************************************)
\* C4: the communicator is released exactly once over the life of a handle:
\* once the wrapper has been destroyed, the library has been told to free
\* the communicator once, also when CheckNCCLError had aborted it before.
C4_ReleasedExactlyOnce == destroyed => releaseCount = 1

(***************************************************************************)
(* Properties of the rendezvous (specification SpecBootstrap).             *)
(***************************************************************************)
\* C9: only rank 0 generates the rendezvous id, and the id any rank passes
\* to ncclCommInitRank is the id rank 0 generated.
C9_SameIdAtInit ==
    /\ generatedBy \subseteq {0}
    /\ \A r \in Ranks : initId[r] # "none" => initId[r] = rootId

\* C9 witness: every rank of the group has received the broadcast and has
\* created its communicator with the id rank 0 generated.
C9_Witness ==
    /\ \A r \in Ranks : bpc[r] = "done" /\ initId[r] = rootId
    /\ generatedBy = {0}

\* The ranks below r whose host hash is that of r.
EarlierOnHost(r) == {p \in Ranks : p < r /\ hostHash[p] = hostHash[r]}

\* C17: the localRank a rank has computed is the number of lower ranks with
\* its host hash; so ranks that share a host hash have distinct local ranks,
\* increasing with the rank and without gaps from 0, and no two of them
\* give the same device to cudaSetDevice.
C17_LocalRank ==
    /\ \A r \in ranked : localRank[r] = Cardinality(EarlierOnHost(r))
    /\ \A r \in Ranks \ ranked : localRank[r] = 0
    /\ \A r, q \in ranked :
           (r < q /\ hostHash[r] = hostHash[q]) => localRank[r] < localRank[q]
    /\ (ranked = Ranks =>
           \A r \in Ranks :
              {localRank[q] : q \in {x \in Ranks : hostHash[x] = hostHash[r]}}
                 = 0 .. (Cardinality({x \in Ranks : hostHash[x] = hostHash[r]}) - 1))
    /\ \A x, y \in deviceSel :
           (x[1] # y[1] /\ hostHash[x[1]] = hostHash[y[1]]) => x[2] # y[2]
    /\ \A x \in deviceSel : x[2] = Cardinality(EarlierOnHost(x[1]))

\* C17 witness: every rank has selected its device, two ranks share a host
\* hash while another rank between them is on a different host.
C17_Witness ==
    /\ \A r \in Ranks : \E x \in deviceSel : x[1] = r
    /\ hostHash[0] = hostHash[NRanks - 1]
    /\ hostHash[1] # hostHash[0]
    /\ localRank[NRanks - 1] = 1

=============================================================================
